---- MODULE Spec2Model ----
(***************************************************************************)
(* Model of the algorithms_exercise crate: the array-backed binary heap    *)
(* of src/src/heap.rs and the binary search of src/src/binary_search.rs.   *)
(* Indices are 0-based as in the source; TLA+ sequences are 1-based, so    *)
(* slot i of a Vec v is v[i + 1].                                          *)
(***************************************************************************)
EXTENDS Integers, Sequences, FiniteSets

\* ---------------------------------------------------------------- bounds
MaxVal == 3
MaxSize == 4
MaxBatch == 2
MaxLen == 4
UsizeBits == 5

Values == 1..MaxVal

\* ------------------------------------------------------------ Option<T>
None == [some |-> FALSE, val |-> 0]

Some(v) == [some |-> TRUE, val |-> v]

\* ------------------------------------------------- heap.rs: the program
VARIABLES elements, size, parent_child_relation

\* the return value of the last call, the call itself and, after insert
\* and extract_top, the heap before the call (otherwise the heap itself)
VARIABLES result, lastOp, prev

\* the heap that the last insert_all would have built from the same
\* pre-state had the values of its slice been given in ascending order
VARIABLES alt

\* the values inserted into a freshly constructed heap and the results of
\* the extract_top calls that followed them
VARIABLES phase, inserted, extracted

\* the argument of the last insert, the largest size the heap has had since
\* its construction, and what the last iter, occurrence_of or fmt produced
VARIABLES arg, peak, out

\* the repair loop a call is in ("idle" between calls), the loop's locals
\* current_parent and current_child, and the swaps the call has made
VARIABLES call, cur_parent, cur_child, swaps

\* ---------------------------------------- binary_search.rs: the program
VARIABLES slice, value, lo, hi, mid, pc, found, overflow_checks

\* ------------------------------------------------ traits.rs: the program
\* the Vec get_random is called on, the random usize drawn, the value
\* returned and the position of the call
VARIABLES vec, random, chosen, rnd_pc

heapVars == <<elements, size, parent_child_relation, result, lastOp, prev,
              alt, phase, inserted, extracted>>

readVars == <<arg, peak, out>>

stepVars == <<call, cur_parent, cur_child, swaps>>

bsVars == <<slice, value, lo, hi, mid, pc, found, overflow_checks>>

rndVars == <<vec, random, chosen, rnd_pc>>

vars == <<elements, size, parent_child_relation, result, lastOp, prev,
          alt, phase, inserted, extracted,
          arg, peak, out, call, cur_parent, cur_child, swaps,
          slice, value, lo, hi, mid, pc, found, overflow_checks,
          vec, random, chosen, rnd_pc>>

ParentChildRelation == {"Greater", "Smaller"}

\* the two relations exchanged
rel_exchanged(r, parent, child) ==
    CASE r = "Smaller" -> parent >= child
      [] r = "Greater" -> parent <= child

\* a relation that does not hold between equal values
rel_strict(r, parent, child) ==
    CASE r = "Smaller" -> parent < child
      [] r = "Greater" -> parent > child

rel(r, parent, child) ==
    CASE r = "Smaller" -> parent <= child
      [] r = "Greater" -> parent >= child

\* the slot before the child taken for its parent
parent_of_previous(child_index) ==
    IF child_index >= 1 THEN child_index - 1 ELSE 0

parent_of(child_index) ==
    (IF child_index >= 1 THEN child_index - 1 ELSE 0) \div 2

left_child_of(parent_index) == parent_index * 2 + 1

right_child_of(parent_index) == parent_index * 2 + 2

\* the Heap struct as a value
Heap(e, s, r) == [elements |-> e, size |-> s, parent_child_relation |-> r]

Self == Heap(elements, size, parent_child_relation)

new(capacity, relation) == Heap(<<>>, 0, relation)

heap_property_satisfied(h, parent_index, child_index) ==
    rel(h.parent_child_relation,
        h.elements[parent_index + 1], h.elements[child_index + 1])

swap(h, i, j) ==
    [h EXCEPT !.elements = [@ EXCEPT ![i + 1] = h.elements[j + 1],
                                     ![j + 1] = h.elements[i + 1]]]

RECURSIVE shift_up_loop(_, _, _)
shift_up_loop(h, current_parent, current_child) ==
    IF heap_property_satisfied(h, current_parent, current_child)
    THEN h
    ELSE LET swapped == swap(h, current_parent, current_child)
         IN  IF current_parent = 0
             THEN swapped
             ELSE shift_up_loop(swapped, parent_of(current_parent),
                                current_parent)

\* a sift-up that gives up after one swap
shift_up_once(h) ==
    IF heap_property_satisfied(h, parent_of(h.size), h.size)
    THEN h
    ELSE swap(h, parent_of(h.size), h.size)

shift_up(h) == shift_up_loop(h, parent_of(h.size), h.size)

\* a target choice that never looks at the right child
current_child_left_only(h, current_parent) == left_child_of(current_parent)

\* a target choice that prefers the right child when the two are equal
current_child_right_on_tie(h, current_parent) ==
    LET left_child  == left_child_of(current_parent)
        right_child == right_child_of(current_parent)
    IN  IF right_child < h.size
        THEN IF h.elements[left_child + 1] # h.elements[right_child + 1]
                /\ rel(h.parent_child_relation,
                       h.elements[left_child + 1], h.elements[right_child + 1])
             THEN left_child
             ELSE right_child
        ELSE left_child

\* the child shift_down compares the current node with (left_child < size)
current_child_of(h, current_parent) ==
    LET left_child  == left_child_of(current_parent)
        right_child == right_child_of(current_parent)
    IN  IF right_child < h.size
        THEN IF heap_property_satisfied(h, left_child, right_child)
             THEN left_child
             ELSE right_child
        ELSE left_child

RECURSIVE shift_down_loop(_, _)
shift_down_loop(h, current_parent) ==
    IF left_child_of(current_parent) >= h.size
    THEN h
    ELSE LET current_child == current_child_of(h, current_parent)
         IN  IF heap_property_satisfied(h, current_parent, current_child)
             THEN h
             ELSE shift_down_loop(swap(h, current_parent, current_child),
                                  current_child)

shift_down(h) == shift_down_loop(h, 0)

\* an insertion that reuses the slot before the free one
insert_overwrite_last(h, new_t) ==
    LET stored == IF h.size = Len(h.elements)
                  THEN [h EXCEPT !.elements = Append(@, new_t)]
                  ELSE [h EXCEPT !.elements = [@ EXCEPT ![h.size] = new_t]]
        lifted == IF h.size > 0 THEN shift_up(stored) ELSE stored
    IN  [lifted EXCEPT !.size = @ + 1]

\* an insertion that always pushes, also when a stale slot is free
insert_always_push(h, new_t) ==
    LET stored == [h EXCEPT !.elements = Append(@, new_t)]
        lifted == IF h.size > 0 THEN shift_up(stored) ELSE stored
    IN  [lifted EXCEPT !.size = @ + 1]

\* an insertion that stores the value and skips the upward repair
insert_unrepaired(h, new_t) ==
    LET stored == IF h.size = Len(h.elements)
                  THEN [h EXCEPT !.elements = Append(@, new_t)]
                  ELSE [h EXCEPT !.elements = [@ EXCEPT ![h.size + 1] = new_t]]
    IN  [stored EXCEPT !.size = @ + 1]

insert(h, new_t) ==
    LET stored == IF h.size = Len(h.elements)
                  THEN [h EXCEPT !.elements = Append(@, new_t)]
                  ELSE [h EXCEPT !.elements = [@ EXCEPT ![h.size + 1] = new_t]]
        lifted == IF h.size > 0 THEN shift_up(stored) ELSE stored
    IN  [lifted EXCEPT !.size = @ + 1]

RECURSIVE insert_all(_, _)
insert_all(h, values) ==
    IF values = <<>>
    THEN h
    ELSE insert_all(insert(h, Head(values)), Tail(values))

\* Vec::first on the backing buffer
find_top(h) ==
    IF Len(h.elements) = 0 THEN None ELSE Some(h.elements[1])

\* an extraction that drops the last live slot instead of the root
extract_top_drop_last(h) ==
    IF h.size = 0
    THEN [heap |-> h, result |-> None]
    ELSE [heap |-> [h EXCEPT !.size = @ - 1], result |-> find_top(h)]

\* an extraction without the early return on an empty heap
extract_top_unguarded(h) ==
    IF h.size = 0
    THEN [heap |-> h, result |-> find_top(h)]
    ELSE LET shrunk == [h EXCEPT !.size = @ - 1]
         IN  [heap   |-> IF shrunk.size > 0
                         THEN shift_down(swap(shrunk, 0, shrunk.size))
                         ELSE shrunk,
              result |-> find_top(h)]

\* the heap after the call and the value returned
extract_top(h) ==
    IF h.size = 0
    THEN [heap |-> h, result |-> None]
    ELSE LET shrunk == [h EXCEPT !.size = @ - 1]
         IN  [heap   |-> IF shrunk.size > 0
                         THEN shift_down(swap(shrunk, 0, shrunk.size))
                         ELSE shrunk,
              result |-> find_top(h)]

Min(a, b) == IF a <= b THEN a ELSE b

\* a traversal of the whole backing buffer
iter_whole_buffer(h) == h.elements

\* elements.iter().take(size)
iter(h) == SubSeq(h.elements, 1, Min(h.size, Len(h.elements)))

\* occurrence_of(Some(item))
occurrence_of(h, item) ==
    Cardinality({i \in 1..Len(iter(h)) : iter(h)[i] = item})

\* occurrence_of(item) for an Option<&T>
occurrence_of_option(h, item) ==
    IF item.some THEN occurrence_of(h, item.val) ELSE 0

\* Debug::fmt: the fields rendered, or a panic when the range 0..size does
\* not lie in the buffer
fmt(h) ==
    IF h.size <= Len(h.elements)
    THEN [ok |-> TRUE,
          elements |-> SubSeq(h.elements, 1, h.size),
          size |-> h.size,
          parent_child_relation |-> h.parent_child_relation]
    ELSE [ok |-> FALSE,
          elements |-> <<>>,
          size |-> h.size,
          parent_child_relation |-> h.parent_child_relation]

\* ------------------------------------------------------ heap.rs: actions
\* the k-th value of s in ascending (r = "Smaller") or descending order
KthInOrder(s, k, r) ==
    CHOOSE v \in {s[i] : i \in 1..Len(s)} :
        IF r = "Smaller"
        THEN /\ Cardinality({i \in 1..Len(s) : s[i] < v}) < k
             /\ k <= Cardinality({i \in 1..Len(s) : s[i] <= v})
        ELSE /\ Cardinality({i \in 1..Len(s) : s[i] > v}) < k
             /\ k <= Cardinality({i \in 1..Len(s) : s[i] >= v})

\* the values of s in ascending order
Ascending(s) == [k \in 1..Len(s) |-> KthInOrder(s, k, "Smaller")]

Max(a, b) == IF a >= b THEN a ELSE b

\* no binary search is running
BsIdle ==
    /\ slice = <<>>
    /\ value = 0
    /\ lo = 0
    /\ hi = 0
    /\ mid = 0
    /\ pc = "idle"
    /\ found = None
    /\ overflow_checks = FALSE

\* no get_random is running
RndIdle ==
    /\ vec = <<>>
    /\ random = 0
    /\ chosen = None
    /\ rnd_pc = "idle"

\* a heap just constructed, between calls
HeapFresh ==
    /\ \E r \in ParentChildRelation, capacity \in {0, MaxSize} :
          /\ elements = new(capacity, r).elements
          /\ size = new(capacity, r).size
          /\ parent_child_relation = new(capacity, r).parent_child_relation
          /\ prev = new(capacity, r)
          /\ alt = new(capacity, r)
    /\ result = None
    /\ lastOp = "new"
    /\ phase = "fill"
    /\ inserted = <<>>
    /\ extracted = <<>>
    /\ arg = None
    /\ peak = 0
    /\ out = <<>>
    /\ call = "idle"
    /\ cur_parent = 0
    /\ cur_child = 0
    /\ swaps = 0

SeqsUpTo(n) == UNION {[1..k -> Values] : k \in 0..n}

Init == HeapFresh /\ BsIdle /\ RndIdle

SetHeap(h) ==
    /\ elements' = h.elements
    /\ size' = h.size
    /\ parent_child_relation' = h.parent_child_relation

\* Heap::new_min / Heap::new_max
New ==
    \E r \in ParentChildRelation, capacity \in {0, MaxSize} :
        /\ SetHeap(new(capacity, r))
        /\ prev' = new(capacity, r)
        /\ alt' = new(capacity, r)
        /\ result' = None
        /\ lastOp' = "new"
        /\ phase' = "fill"
        /\ inserted' = <<>>
        /\ extracted' = <<>>
        /\ arg' = None
        /\ peak' = 0
        /\ out' = <<>>
        /\ UNCHANGED <<stepVars, bsVars, rndVars>>

Insert ==
    \E new_t \in Values :
        /\ size < MaxSize
        /\ SetHeap(insert(Self, new_t))
        /\ prev' = Self
        /\ alt' = insert(Self, new_t)
        /\ result' = None
        /\ lastOp' = "insert"
        /\ IF phase = "fill"
           THEN /\ phase' = "fill"
                /\ inserted' = Append(inserted, new_t)
                /\ extracted' = <<>>
           ELSE /\ phase' = "mixed"
                /\ inserted' = <<>>
                /\ extracted' = <<>>
        /\ arg' = Some(new_t)
        /\ peak' = Max(peak, size + 1)
        /\ out' = <<>>
        /\ UNCHANGED <<stepVars, bsVars, rndVars>>

InsertAll ==
    \E values \in SeqsUpTo(MaxBatch) :
        /\ size + Len(values) <= MaxSize
        /\ SetHeap(insert_all(Self, values))
        /\ prev' = insert_all(Self, values)
        /\ alt' = insert_all(Self, Ascending(values))
        /\ result' = None
        /\ lastOp' = "insert_all"
        /\ IF phase = "fill"
           THEN /\ phase' = "fill"
                /\ inserted' = inserted \o values
                /\ extracted' = <<>>
           ELSE /\ phase' = IF values = <<>> THEN phase ELSE "mixed"
                /\ inserted' = IF values = <<>> THEN inserted ELSE <<>>
                /\ extracted' = IF values = <<>> THEN extracted ELSE <<>>
        /\ arg' = None
        /\ peak' = Max(peak, size + Len(values))
        /\ out' = <<>>
        /\ UNCHANGED <<stepVars, bsVars, rndVars>>

FindTop ==
    /\ SetHeap(Self)
    /\ prev' = Self
    /\ alt' = Self
    /\ result' = find_top(Self)
    /\ lastOp' = "find_top"
    /\ UNCHANGED <<phase, inserted, extracted>>
    /\ arg' = None
    /\ out' = <<>>
    /\ UNCHANGED <<peak, stepVars, bsVars, rndVars>>

ExtractTop ==
    /\ SetHeap(extract_top(Self).heap)
    /\ prev' = Self
    /\ alt' = extract_top(Self).heap
    /\ result' = extract_top(Self).result
    /\ lastOp' = "extract_top"
    /\ IF phase \in {"fill", "drain"}
       THEN /\ phase' = "drain"
            /\ inserted' = inserted
            /\ extracted' = IF Len(extracted) <= Len(inserted)
                            THEN Append(extracted, extract_top(Self).result)
                            ELSE extracted
       ELSE UNCHANGED <<phase, inserted, extracted>>
    /\ arg' = None
    /\ out' = <<>>
    /\ UNCHANGED <<peak, stepVars, bsVars, rndVars>>

Next == New \/ Insert \/ InsertAll \/ FindTop \/ ExtractTop

Spec == Init /\ [][Next]_vars

\* ------------------------------------------------------ heap.rs: claims
Live(h) == {h.elements[i] : i \in 1..h.size}

\* the least live value of a min-heap, the greatest of a max-heap
BestOfLive(h) ==
    IF h.parent_child_relation = "Smaller"
    THEN CHOOSE v \in Live(h) : \A w \in Live(h) : v <= w
    ELSE CHOOSE v \in Live(h) : \A w \in Live(h) : v >= w

\* C1: after any sequence of calls every live parent is <= (min-heap) or
\* >= (max-heap) each of its live children at 2i+1 and 2i+2.
C1_HeapProperty ==
    \A i \in 0..(size - 1) :
        \A c \in {2 * i + 1, 2 * i + 2} :
            c < size =>
                IF parent_child_relation = "Smaller"
                THEN elements[i + 1] <= elements[c + 1]
                ELSE elements[i + 1] >= elements[c + 1]

\* a heap of at least three live values whose root was repaired downward
\* over a buffer that still holds a stale slot
C1_Witness ==
    /\ lastOp = "extract_top"
    /\ size >= 3
    /\ Len(elements) > size
    /\ elements[1] # prev.elements[prev.size]
    /\ \E i, j \in 1..size : elements[i] # elements[j]

\* C2: find_top reports "no value" whenever size is 0.
C2_FindTopNoValueWhenEmpty ==
    size = 0 => find_top(Self) = None

\* C3: on a non-empty heap find_top is the minimum (min-heap) or maximum
\* (max-heap) of the live elements.
C3_TopCorrectness ==
    size > 0 => find_top(Self) = Some(BestOfLive(Self))

\* a heap of at least three live values, not all equal, whose root was
\* put in place by the downward repair of an extraction
C3_Witness ==
    /\ lastOp = "extract_top"
    /\ size >= 3
    /\ Cardinality(Live(Self)) >= 2
    /\ elements[1] # prev.elements[1]
    /\ elements[1] # prev.elements[prev.size]

\* C4: extract_top on a non-empty heap returns what find_top reported,
\* removes exactly one occurrence of that value, keeps the count of every
\* other value and decreases size by 1.
C4_ExtractionConservation ==
    (lastOp = "extract_top" /\ prev.size > 0) =>
        /\ result = find_top(prev)
        /\ result.some
        /\ occurrence_of(Self, result.val) = occurrence_of(prev, result.val) - 1
        /\ \A v \in Values \ {result.val} :
               occurrence_of(Self, v) = occurrence_of(prev, v)
        /\ size = prev.size - 1

\* an extraction from a heap holding the top value more than once
C4_Witness ==
    /\ lastOp = "extract_top"
    /\ prev.size >= 3
    /\ occurrence_of(prev, result.val) >= 2
    /\ Cardinality(Live(prev)) >= 2

\* C5: extract_top on a heap of size 0 returns "no value" and leaves the
\* buffer, the size and the policy as they were.
C5_ExtractFromEmpty ==
    (lastOp = "extract_top" /\ prev.size = 0) =>
        /\ result = None
        /\ size = 0
        /\ elements = prev.elements
        /\ parent_child_relation = prev.parent_child_relation

\* an extraction from a heap whose size returned to 0 over a used buffer
C5_Witness ==
    /\ lastOp = "extract_top"
    /\ prev.size = 0
    /\ Len(prev.elements) > 0

\* C6: after n values were inserted into an empty heap, the k-th of the
\* following extract_top calls returns the k-th value in ascending
\* (min-heap) or descending (max-heap) order, and the (n+1)-th "no value".
C6_SortedExtraction ==
    phase = "drain" =>
        \A k \in 1..Len(extracted) :
            IF k <= Len(inserted)
            THEN extracted[k] = Some(KthInOrder(inserted, k,
                                                parent_child_relation))
            ELSE extracted[k] = None

\* a heap drained past its last value after an unsorted fill with a
\* repeated value
C6_Witness ==
    /\ phase = "drain"
    /\ Len(inserted) >= 4
    /\ Len(extracted) = Len(inserted) + 1
    /\ \E i, j \in 1..Len(inserted) : i < j /\ inserted[i] > inserted[j]
    /\ \E i, j \in 1..Len(inserted) : i < j /\ inserted[i] < inserted[j]
    /\ \E i, j \in 1..Len(inserted) : i < j /\ inserted[i] = inserted[j]

\* C10: the heap built by insert_all from a slice agrees in size, in the
\* count of every live value and in find_top with the heap built from the
\* same state out of the same values in ascending order; two orderings of
\* the same values share that ascending order, so they agree with each
\* other.
C10_InsertAllOrderIndependence ==
    lastOp = "insert_all" =>
        /\ size = alt.size
        /\ \A v \in Values : occurrence_of(Self, v) = occurrence_of(alt, v)
        /\ find_top(Self) = find_top(alt)

\* two orderings that left different layouts behind, on a buffer that
\* earlier extractions had left longer than the live region
C10_Witness ==
    /\ lastOp = "insert_all"
    /\ size >= 3
    /\ Len(elements) > size
    /\ elements # alt.elements

\* C14: insert(v) increases size by 1 and the count of v among the live
\* elements by 1 and keeps the count of every other value, whether v was
\* pushed or written over a stale slot.
C14_InsertConservation ==
    lastOp = "insert" =>
        /\ arg.some
        /\ size = prev.size + 1
        /\ occurrence_of(Self, arg.val) = occurrence_of(prev, arg.val) + 1
        /\ \A v \in Values \ {arg.val} :
               occurrence_of(Self, v) = occurrence_of(prev, v)

\* an insert over a stale slot holding another value, into a heap of at
\* least two live values, that the upward repair moved away from that slot
C14_Witness ==
    /\ lastOp = "insert"
    /\ prev.size >= 2
    /\ Len(prev.elements) > prev.size
    /\ prev.elements[prev.size + 1] # arg.val
    /\ elements[prev.size + 1] # arg.val

\* --------------------------------------- heap.rs: the read-only calls
\* a call that takes &self: the heap stays, prev is the heap it saw
ReadOnly(op, produced) ==
    /\ call = "idle"
    /\ SetHeap(Self)
    /\ prev' = Self
    /\ alt' = Self
    /\ result' = None
    /\ lastOp' = op
    /\ arg' = None
    /\ out' = produced
    /\ UNCHANGED <<phase, inserted, extracted, peak>>
    /\ UNCHANGED <<stepVars, bsVars, rndVars>>

\* heap.iter(), collected
Iter == ReadOnly("iter", iter(Self))

OccurrenceOf ==
    \E item \in {None} \cup {Some(v) : v \in Values} :
        ReadOnly("occurrence_of", occurrence_of_option(Self, item))

\* format!("{:?}", heap)
Fmt == ReadOnly("fmt", fmt(Self))

NextRead == New \/ Insert \/ ExtractTop \/ Iter \/ OccurrenceOf \/ Fmt

SpecRead == Init /\ [][NextRead]_vars

\* C11: iter() yields the elements at indices 0..size-1 in array order, so
\* as many as size and no slot at or behind size; iter() and occurrence_of
\* leave buffer, size and policy as they were.
C11_ReadOnlyTraversal ==
    /\ Len(iter(Self)) = size
    /\ \A i \in 0..(size - 1) : iter(Self)[i + 1] = elements[i + 1]
    /\ lastOp = "iter" =>
           /\ out = [i \in 1..size |-> elements[i]]
           /\ Self = prev
    /\ lastOp = "occurrence_of" =>
           /\ out \in 0..size
           /\ Self = prev

\* a traversal of a heap of at least two live values whose buffer holds a
\* stale slot behind them
C11_Witness ==
    /\ lastOp = "iter"
    /\ size >= 2
    /\ Len(elements) > size
    /\ Len(out) = size

\* C16: size never exceeds the length of the buffer, so the range 0..size
\* rendered by Debug and every index below size lies in the buffer; the
\* length never decreases and is the largest size the heap has had.
C16_StorageInvariant ==
    /\ size <= Len(elements)
    /\ fmt(Self).ok
    /\ lastOp = "fmt" => out.ok
    /\ Len(elements) >= Len(prev.elements)
    /\ Len(elements) = peak

\* an insert that reused a stale slot of a buffer that once held three
\* values, leaving another stale slot behind the live ones
C16_Witness ==
    /\ lastOp = "insert"
    /\ Len(prev.elements) = Len(elements)
    /\ size < Len(elements)
    /\ peak >= 3

\* ------------------------------- heap.rs: insert and extract_top by steps
\* the first statement of insert: the value goes to slot size
store(h, new_t) ==
    IF h.size = Len(h.elements)
    THEN [h EXCEPT !.elements = Append(@, new_t)]
    ELSE [h EXCEPT !.elements = [@ EXCEPT ![h.size + 1] = new_t]]

\* a step of a call: the parts of the state no step changes
StepFrame ==
    /\ parent_child_relation' = parent_child_relation
    /\ UNCHANGED <<alt, phase, inserted, extracted, out>>
    /\ UNCHANGED <<bsVars, rndVars>>

\* insert up to the first test of shift_up's loop condition
InsertCall ==
    \E new_t \in Values :
        /\ call = "idle"
        /\ size < MaxSize
        /\ elements' = store(Self, new_t).elements
        /\ prev' = Self
        /\ arg' = Some(new_t)
        /\ result' = None
        /\ lastOp' = "insert"
        /\ peak' = Max(peak, size + 1)
        /\ swaps' = 0
        /\ IF size > 0
           THEN /\ call' = "shift_up"
                /\ cur_child' = size
                /\ cur_parent' = parent_of(size)
                /\ size' = size
           ELSE /\ call' = "idle"
                /\ cur_child' = 0
                /\ cur_parent' = 0
                /\ size' = size + 1
        /\ StepFrame

\* the loop condition of shift_up holds: swap, then break at the root or
\* move one level up
ShiftUpSwap ==
    /\ call = "shift_up"
    /\ ~heap_property_satisfied(Self, cur_parent, cur_child)
    /\ elements' = swap(Self, cur_parent, cur_child).elements
    /\ swaps' = swaps + 1
    /\ IF cur_parent = 0
       THEN /\ call' = "idle"
            /\ size' = size + 1
            /\ UNCHANGED <<cur_parent, cur_child>>
       ELSE /\ call' = "shift_up"
            /\ size' = size
            /\ cur_child' = cur_parent
            /\ cur_parent' = parent_of(cur_parent)
    /\ UNCHANGED <<prev, arg, result, lastOp, peak>>
    /\ StepFrame

\* the loop condition of shift_up fails: insert increments size and returns
ShiftUpReturn ==
    /\ call = "shift_up"
    /\ heap_property_satisfied(Self, cur_parent, cur_child)
    /\ call' = "idle"
    /\ size' = size + 1
    /\ UNCHANGED <<elements, cur_parent, cur_child, swaps>>
    /\ UNCHANGED <<prev, arg, result, lastOp, peak>>
    /\ StepFrame

\* extract_top up to the first iteration of shift_down's loop
ExtractCall ==
    /\ call = "idle"
    /\ prev' = Self
    /\ arg' = None
    /\ lastOp' = "extract_top"
    /\ swaps' = 0
    /\ cur_parent' = 0
    /\ cur_child' = 0
    /\ IF size = 0
       THEN /\ result' = None
            /\ call' = "idle"
            /\ UNCHANGED <<elements, size>>
       ELSE /\ result' = find_top(Self)
            /\ size' = size - 1
            /\ IF size - 1 > 0
               THEN /\ elements' = swap(Self, 0, size - 1).elements
                    /\ call' = "shift_down"
               ELSE /\ elements' = elements
                    /\ call' = "idle"
    /\ UNCHANGED peak
    /\ StepFrame

\* an iteration of shift_down that swaps and goes on from the child
ShiftDownSwap ==
    /\ call = "shift_down"
    /\ left_child_of(cur_parent) < size
    /\ ~heap_property_satisfied(Self, cur_parent,
                                current_child_of(Self, cur_parent))
    /\ cur_child' = current_child_of(Self, cur_parent)
    /\ elements' = swap(Self, cur_parent,
                        current_child_of(Self, cur_parent)).elements
    /\ cur_parent' = current_child_of(Self, cur_parent)
    /\ swaps' = swaps + 1
    /\ call' = "shift_down"
    /\ UNCHANGED <<size, prev, arg, result, lastOp, peak>>
    /\ StepFrame

\* an iteration of shift_down that returns: no child, or the chosen child
\* is dominated
ShiftDownReturn ==
    /\ call = "shift_down"
    /\ IF left_child_of(cur_parent) >= size
       THEN cur_child' = cur_child
       ELSE /\ heap_property_satisfied(Self, cur_parent,
                                       current_child_of(Self, cur_parent))
            /\ cur_child' = current_child_of(Self, cur_parent)
    /\ call' = "idle"
    /\ UNCHANGED <<elements, size, cur_parent, swaps>>
    /\ UNCHANGED <<prev, arg, result, lastOp, peak>>
    /\ StepFrame

RepairStep == ShiftUpSwap \/ ShiftUpReturn \/ ShiftDownSwap \/ ShiftDownReturn

NextSteps ==
    InsertCall \/ ShiftUpSwap \/ ShiftUpReturn
        \/ ExtractCall \/ ShiftDownSwap \/ ShiftDownReturn

SpecSteps == Init /\ [][NextSteps]_vars

\* a call runs to its end: nothing suspends a repair loop
SpecStepsFair == SpecSteps /\ WF_vars(RepairStep)

\* a finished call by steps left what the call as a whole leaves
StepsAgree ==
    call = "idle" =>
        /\ lastOp = "insert" => Self = insert(prev, arg.val)
        /\ lastOp = "extract_top" =>
               /\ Self = extract_top(prev).heap
               /\ result = extract_top(prev).result

\* ------------------------------------------ heap.rs: claims on the steps
\* a parent value satisfies the policy against a child value, ties included
Dominates(parent, child) ==
    IF parent_child_relation = "Smaller" THEN parent <= child
                                         ELSE parent >= child

\* the level of slot i in the tree, the root being at level 0
RECURSIVE Depth(_)
Depth(i) == IF i = 0 THEN 0 ELSE 1 + Depth((i - 1) \div 2)

\* the slots from slot i up to the root
RECURSIVE PathToRoot(_)
PathToRoot(i) == IF i = 0 THEN {0} ELSE {i} \cup PathToRoot((i - 1) \div 2)

\* walking from slot i to the root over the values of h, the first slot
\* whose parent dominates v, or the root
RECURSIVE StopIndex(_, _, _)
StopIndex(h, v, i) ==
    IF i = 0
    THEN 0
    ELSE IF Dominates(h.elements[(i - 1) \div 2 + 1], v)
         THEN i
         ELSE StopIndex(h, v, (i - 1) \div 2)

\* the children of slot p that the value at p does not dominate
ViolatingChildren(p) ==
    {c \in {2 * p + 1, 2 * p + 2} :
        c < size /\ ~Dominates(elements[p + 1], elements[c + 1])}

\* the other child of the parent of slot c (c >= 1)
Sibling(c) == IF c % 2 = 1 THEN c + 1 ELSE c - 1

C15_SiftUpStopsAtFirstDominatingParent ==
    (call = "idle" /\ lastOp = "insert") =>
        LET n    == prev.size
            v    == arg.val
            stop == StopIndex(prev, v, n)
            moved == {i \in PathToRoot(n) : i > stop}
        IN  /\ elements[stop + 1] = v
            /\ swaps = Depth(n) - Depth(stop)
            /\ \A i \in moved :
                   elements[i + 1] = prev.elements[(i - 1) \div 2 + 1]
            /\ \A i \in 0..(Len(elements) - 1) :
                   (i \notin PathToRoot(n) \/ i < stop) =>
                       elements[i + 1] = prev.elements[i + 1]
            /\ (n > 0 /\ Dominates(prev.elements[(n - 1) \div 2 + 1], v)) =>
                   /\ swaps = 0
                   /\ \A i \in 0..(n - 1) :
                          elements[i + 1] = prev.elements[i + 1]

\* an insert into three live values that stopped below the root, at a
\* value equal to the inserted one, after one swap
C15_Witness ==
    /\ call = "idle"
    /\ lastOp = "insert"
    /\ prev.size = 3
    /\ swaps = 1
    /\ elements[1] = arg.val
    /\ elements[2] = arg.val

\* C17: every call ends; each swap of shift_up moves the index one level
\* up, so an insert makes at most as many swaps as the depth of the new
\* slot; each swap of shift_down moves the index one level down and keeps
\* it below size, so an extract_top makes at most as many swaps as the
\* height of the heap.
C17_RepairTerminates ==
    /\ (call # "idle") ~> (call = "idle")
    /\ [](call = "shift_up" =>
             /\ cur_parent < cur_child
             /\ swaps = Depth(size) - Depth(cur_child))
    /\ [](call = "shift_down" =>
             /\ cur_parent < size
             /\ swaps = Depth(cur_parent))
    /\ []((call = "idle" /\ lastOp = "insert") => swaps <= Depth(prev.size))
    /\ []((call = "idle" /\ lastOp = "extract_top" /\ size > 0) =>
             swaps <= Depth(size - 1))
    /\ [][(call = "shift_up" /\ call' = "shift_up" /\ swaps' # swaps) =>
             cur_child' < cur_child]_vars
    /\ [][(call = "shift_down" /\ swaps' # swaps) =>
             (cur_parent' > cur_parent /\ cur_parent' < size)]_vars

\* an insert that swapped its value from the deepest slot up to the root
C17_Witness ==
    /\ call = "idle"
    /\ lastOp = "insert"
    /\ prev.size >= 3
    /\ swaps = Depth(prev.size)
    /\ swaps >= 2

\* C18: a step of shift_down on a node with two live children compares it
\* with a child that dominates the other, the left one when they are equal;
\* with one live child, with that child; with none it returns; after a
\* swap the value in the parent slot dominates both children.
C18_SiftDownTargetChoice ==
    [][call = "shift_down" =>
          LET l == 2 * cur_parent + 1
              r == 2 * cur_parent + 2
          IN  IF l >= size
              THEN call' = "idle" /\ elements' = elements /\ swaps' = swaps
              ELSE /\ IF r >= size
                      THEN cur_child' = l
                      ELSE /\ cur_child' \in {l, r}
                           /\ Dominates(elements[cur_child' + 1],
                                        elements[Sibling(cur_child') + 1])
                           /\ elements[l + 1] = elements[r + 1] =>
                                  cur_child' = l
                   /\ swaps' # swaps =>
                          /\ cur_parent' = cur_child'
                          /\ \A c \in {l, r} :
                                 c < size =>
                                     Dominates(elements'[cur_parent + 1],
                                               elements'[c + 1])
                   /\ swaps' = swaps =>
                          /\ call' = "idle"
                          /\ Dominates(elements[cur_parent + 1],
                                       elements[cur_child' + 1])]_vars

\* a swap at the root with the left child, whose value equalled the right
\* child's
C18_Witness ==
    /\ call = "shift_down"
    /\ swaps = 1
    /\ cur_child = 1
    /\ size >= 3
    /\ elements[1] = elements[3]
    /\ elements[1] # elements[2]

\* ------------------------------------------- binary_search.rs: the program
\* usize arithmetic, at a reduced width
Modulus == 2 ^ UsizeBits

UsizeMax == Modulus - 1

wrapping_sub(a, b) == (a + Modulus - b) % Modulus

\* Ord::cmp with its operands exchanged
cmp_exchanged(a, b) ==
    IF a = b THEN "Equal" ELSE IF a < b THEN "Greater" ELSE "Less"

\* Ord::cmp
cmp(a, b) ==
    IF a = b THEN "Equal" ELSE IF a < b THEN "Less" ELSE "Greater"

IsSorted(s) == \A i \in 1..(Len(s) - 1) : s[i] <= s[i + 1]

SortedSlices == {s \in UNION {[1..k -> Values] : k \in 0..MaxLen} : IsSorted(s)}

Targets == 0..(MaxVal + 1)

\* a call binary_search(slice, value) about to run, in a build with or
\* without overflow checks
InitBS ==
    /\ slice \in SortedSlices
    /\ value \in Targets
    /\ overflow_checks \in BOOLEAN
    /\ pc = "call"
    /\ lo = 0
    /\ hi = 0
    /\ mid = 0
    /\ found = None
    /\ HeapFresh
    /\ parent_child_relation = "Smaller"
    /\ RndIdle

\* let mut lo = 0; let mut hi = slice.len() - 1;
BsEnter ==
    /\ pc = "call"
    /\ lo' = 0
    /\ IF Len(slice) = 0 /\ overflow_checks
       THEN /\ pc' = "panic"
            /\ hi' = hi
       ELSE /\ pc' = "loop"
            /\ hi' = wrapping_sub(Len(slice), 1)
    /\ UNCHANGED <<slice, value, mid, found, overflow_checks>>
    /\ UNCHANGED <<heapVars, readVars, stepVars, rndVars>>

\* one evaluation of the loop condition with lo <= hi, and the loop body
BsIterate ==
    /\ pc = "loop"
    /\ lo <= hi
    /\ IF lo + hi > UsizeMax /\ overflow_checks
       THEN /\ pc' = "panic"
            /\ UNCHANGED <<lo, hi, mid, found>>
       ELSE LET m == ((lo + hi) % Modulus) \div 2
            IN  /\ mid' = m
                /\ IF m >= Len(slice)
                   THEN /\ pc' = "panic"
                        /\ UNCHANGED <<lo, hi, found>>
                   ELSE CASE cmp(slice[m + 1], value) = "Equal" ->
                                 /\ found' = Some(m)
                                 /\ pc' = "done"
                                 /\ UNCHANGED <<lo, hi>>
                          [] cmp(slice[m + 1], value) = "Less" ->
                                 /\ lo' = m + 1
                                 /\ pc' = "loop"
                                 /\ UNCHANGED <<hi, found>>
                          [] cmp(slice[m + 1], value) = "Greater" ->
                                 /\ hi' = wrapping_sub(m, 1)
                                 /\ pc' = "loop"
                                 /\ UNCHANGED <<lo, found>>
    /\ UNCHANGED <<slice, value, overflow_checks>>
    /\ UNCHANGED <<heapVars, readVars, stepVars, rndVars>>

\* the loop condition fails: None
BsExit ==
    /\ pc = "loop"
    /\ lo > hi
    /\ found' = None
    /\ pc' = "done"
    /\ UNCHANGED <<slice, value, lo, hi, mid, overflow_checks>>
    /\ UNCHANGED <<heapVars, readVars, stepVars, rndVars>>

NextBS == BsEnter \/ BsIterate \/ BsExit

SpecBS == InitBS /\ [][NextBS]_vars

\* ------------------------------------------- binary_search.rs: claims
Holds(s, v) == \E i \in 1..Len(s) : s[i] = v

StrictlyAscending(s) == \A i \in 1..(Len(s) - 1) : s[i] < s[i + 1]

\* C7: on a non-empty sorted slice the search does not fault and ends with
\* an index of an element equal to the target when there is one, and with
\* "not found" otherwise.
C7_BinarySearchAgreement ==
    Len(slice) > 0 =>
        /\ pc # "panic"
        /\ pc = "done" =>
               IF Holds(slice, value)
               THEN found.some /\ found.val < Len(slice)
                               /\ slice[found.val + 1] = value
               ELSE found = None

\* C8: on an empty slice the search does not fault and ends with
\* "not found".
C8_EmptySliceNotFound ==
    Len(slice) = 0 =>
        /\ pc # "panic"
        /\ pc = "done" => found = None

\* C9: on a strictly ascending slice the search for slice[i] does not
\* fault and ends with exactly i.
C9_ExistingItemIndex ==
    (StrictlyAscending(slice) /\ Holds(slice, value)) =>
        /\ pc # "panic"
        /\ pc = "done" =>
               /\ found.some
               /\ found.val < Len(slice)
               /\ slice[found.val + 1] = value
               /\ \A i \in 0..(Len(slice) - 1) :
                      slice[i + 1] = value => found = Some(i)

\* a finished search for the first element of a strictly ascending slice
\* of at least three elements that needed more than one probe
C9_Witness ==
    /\ pc = "done"
    /\ StrictlyAscending(slice)
    /\ Len(slice) >= 3
    /\ value = slice[1]
    /\ found = Some(0)
    /\ hi < Len(slice) - 1

\* ------------------------------------------------ traits.rs: the program
\* a get_random that always returns the first element
get_random_first(v, r) ==
    IF Len(v) = 0 THEN None ELSE Some(v[1])

\* Vec::get_random, with r the value of rand::random::<usize>()
get_random(v, r) ==
    IF Len(v) = 0
    THEN None
    ELSE LET idx == r % Len(v)
         IN  Some(v[idx + 1])

\* a call vec.get_random() about to run
InitRandom ==
    /\ vec \in UNION {[1..k -> Values] : k \in 0..MaxLen}
    /\ random = 0
    /\ chosen = None
    /\ rnd_pc = "call"
    /\ HeapFresh
    /\ parent_child_relation = "Smaller"
    /\ BsIdle

GetRandom ==
    /\ rnd_pc = "call"
    /\ IF Len(vec) = 0
       THEN /\ random' = random
            /\ chosen' = get_random(vec, random)
       ELSE \E r \in 0..UsizeMax :
               /\ random' = r
               /\ chosen' = get_random(vec, r)
    /\ vec' = vec
    /\ rnd_pc' = "done"
    /\ UNCHANGED <<heapVars, readVars, stepVars, bsVars>>

NextRandom == GetRandom

SpecRandom == InitRandom /\ [][NextRandom]_vars

\* C12: get_random returns "no candidate" on an empty Vec and a member of
\* a non-empty one; every member is the result for some random number; the
\* Vec is left as it was.
C12_RandomChoice ==
    /\ [](rnd_pc = "done" =>
             IF vec = <<>>
             THEN chosen = None
             ELSE chosen.some /\ \E i \in 1..Len(vec) : vec[i] = chosen.val)
    /\ [](\A i \in 1..Len(vec) :
             \E r \in 0..UsizeMax : get_random(vec, r) = Some(vec[i]))
    /\ [][vec' = vec]_vars

\* a call that returned the last element, found nowhere else in the Vec,
\* for a random number beyond the length
C12_Witness ==
    /\ rnd_pc = "done"
    /\ Len(vec) >= 3
    /\ random >= Len(vec)
    /\ chosen = Some(vec[Len(vec)])
    /\ \A i \in 1..(Len(vec) - 1) : vec[i] # vec[Len(vec)]

====
